---- MODULE Spec2Model ----
(***************************************************************************)
(* PDFComparer (src/main.py): the label pass add_text_differences, the     *)
(* per-document loop compare_pdfs and the batch loop run_comparison.       *)
(*                                                                         *)
(* Lengths are in points.  A word is a sequence of one-character strings.  *)
(* A colour (r, g, b) with components in [0, 1] is a tuple of tenths, so   *)
(* (0, 0.8, 0) is <<0, 8, 0>>.                                             *)
(***************************************************************************)
EXTENDS Integers, Sequences, FiniteSets, TLC

(* ------------------------------ bounds --------------------------------- *)

\* Longest word-diff list handed to one label pass.
MaxDiffs == 3

\* Most pages in a document.
MaxPages == 2

\* Number of distinct PDF file names a directory may hold.
MaxFiles == 2

(* ------------------------- program constants --------------------------- *)

\* FONT_SIZE of the __main__ block; the constructor's default too.
FONT_SIZE == 8

\* The zoom factors tried; QUALITY of the __main__ block is 2.
Qualities == {1, 2}

Green == <<0, 8, 0>>
Red   == <<8, 0, 0>>
Black == <<0, 0, 0>>

Plus  == <<"+", " ">>
Minus == <<"-", " ">>

(* ------------------------------ inputs --------------------------------- *)

\* Words as compare_text may hand them over: marked added, marked removed,
\* marked but empty after the marker, and carrying no marker at all.
Words ==
  { <<"+", " ", "a", "b">>, <<"-", " ", "a">>, <<"+", " ">>, <<"b">> }

\* Bounding boxes (x0, y0, x1, y1) in unscaled page coordinates.  Three on
\* one line: at its start, and where a one-letter label at the start leaves
\* less than a space (x0 = 5) and exactly a space (x0 = 6); one on another
\* line.
BBoxes ==
  { <<0, 100, 20, 110>>, <<5, 100, 25, 110>>, <<6, 100, 26, 110>>,
    <<0, 200, 20, 210>> }

ChangeTypes == {"added", "removed"}

\* One element of word_diffs: (word, bbox, change_type).  A marked word
\* carries the change type its marker names; a word without marker carries
\* either.
WordDiffs ==
  { d \in [word : Words, bbox : BBoxes, change_type : ChangeTypes] :
      /\ d.word[1] = "+" => d.change_type = "added"
      /\ d.word[1] = "-" => d.change_type = "removed" }

(* ------------------------- library operations -------------------------- *)

\* Advance of one glyph of the default font (Helvetica), in eighths of the
\* font size.
GlyphAdvance(c) ==
  CASE c = " " -> 2
    [] c = "-" -> 3
    [] c = "+" -> 5
    [] c = ">" -> 5
    [] OTHER   -> 4

RECURSIVE SumAdvance(_)
SumAdvance(text) ==
  IF text = <<>> THEN 0 ELSE GlyphAdvance(Head(text)) + SumAdvance(Tail(text))

\* pymupdf.get_text_length(text, fontsize=fontsize)
get_text_length(text, fontsize) == (fontsize * SumAdvance(text)) \div 8

\* pymupdf.Rect(x0, y0, x1, y1)
Rect(x0, y0, x1, y1) == [x0 |-> x0, y0 |-> y0, x1 |-> x1, y1 |-> y1]

\* Rect.is_empty
is_empty(r) == r.x0 >= r.x1 \/ r.y0 >= r.y1

\* Rect.is_infinite: the rectangle is pymupdf's INFINITE_RECT sentinel.
is_infinite(r) ==
  /\ r.x0 = -2147483647 - 1 /\ r.y0 = -2147483647 - 1
  /\ r.x1 = 2147483520 /\ r.y1 = 2147483520

\* str.startswith
startswith(word, prefix) ==
  Len(word) >= Len(prefix) /\ SubSeq(word, 1, Len(prefix)) = prefix

\* word[2:]
DropMarker(word) == SubSeq(word, 3, Len(word))

(* --------------------------- the label pass ---------------------------- *)

VARIABLES
  quality,             \* self.quality
  font_size,           \* self.font_size, already scaled by quality
  word_diffs,          \* the elements of word_diffs the loop has taken so far
  current_x_position,  \* line key -> x position after the last label on it
  text_color,          \* the loop's local text_color
  word_text,           \* the loop's local word_text
  assigned,            \* whether text_color and word_text are bound yet
  page,                \* the insert_textbox calls made on the page, in order
  log,                 \* per iteration: what it computed (history)
  pc                   \* "loop", "returned" or "UnboundLocalError"

placeVars ==
  << quality, font_size, word_diffs, current_x_position, text_color,
     word_text, assigned, page, log, pc >>

\* current_x_position = {}
EmptyPositions == [k \in {} |-> 0]

\* current_x_position[key] = value
Store(positions, key, value) ==
  [k \in DOMAIN positions \cup {key} |-> IF k = key THEN value ELSE positions[k]]

\* Lines 62-67: the colour and the text shown for a word.  A word with
\* neither marker binds nothing: the locals keep what the previous iteration
\* left in them.
Bind(st, word) ==
  IF startswith(word, Plus)
  THEN [assigned |-> TRUE, text_color |-> Green, word_text |-> DropMarker(word)]
  ELSE IF startswith(word, Minus)
  THEN [assigned |-> TRUE, text_color |-> Red, word_text |-> DropMarker(word)]
  ELSE [assigned |-> st.assigned, text_color |-> st.text_color,
        word_text |-> st.word_text]

\* Lines 73-74: the intended position, scaled.
MutScaledUnscaled(coordinate, q) == coordinate

Scaled(coordinate, q) == coordinate * q

\* Lines 77-79: the overlap test.
MutCollidesNoMargin(positions, x, y, fs) ==
  /\ y \in DOMAIN positions
  /\ positions[y] > x

Collides(positions, x, y, fs) ==
  /\ y \in DOMAIN positions
  /\ positions[y] + get_text_length(<<" ">>, fs) > x

ArrowText == <<" ", ">">>

\* Line 83: the arrow's rectangle.
ArrowRect(last_x_position, y, fs) ==
  Rect(last_x_position, y - fs,
       last_x_position + get_text_length(ArrowText, fs), y + (fs * 2))

\* Line 86: the position a colliding label is moved to.
Shifted(last_x_position, fs) ==
  last_x_position + get_text_length(ArrowText, fs) + get_text_length(<<" ">>, fs)

\* Line 88: the label's rectangle.
TextRect(x, y, width, fs) == Rect(x, y - fs, x + width, y + (fs * 2))

\* Line 92: the value stored for the line.
MutExtentStart(x, width) == x

Extent(x, width) == x + width

\* One insert_textbox call; src is the index of the diff it was made for.
Command(kind, rect, text, color, src) ==
  [kind |-> kind, rect |-> rect, text |-> text, color |-> color, src |-> src]

\* The state one iteration of the loop works on.
PassState(positions, color, text, bound, cmds, history, status) ==
  [current_x_position |-> positions, text_color |-> color, word_text |-> text,
   assigned |-> bound, page |-> cmds, log |-> history, status |-> status]

StartOfPass(cmds) ==
  PassState(EmptyPositions, Black, <<>>, FALSE, cmds, <<>>, "loop")

\* Lines 61-92: one iteration of the loop, for the n-th diff d.
Iteration(st, d, n, q, fs) ==
  LET b == Bind(st, d.word)
  IN
  IF ~b.assigned
  THEN [st EXCEPT !.status = "UnboundLocalError"]
  ELSE
    LET text_width == get_text_length(b.word_text, fs)
        intended_x == Scaled(d.bbox[1], q)
        text_pos_y == Scaled(d.bbox[2], q)
        collides   == Collides(st.current_x_position, intended_x, text_pos_y, fs)
        last_x_position ==
          IF text_pos_y \in DOMAIN st.current_x_position
          THEN st.current_x_position[text_pos_y] ELSE 0
        arrow ==
          Command("arrow", ArrowRect(last_x_position, text_pos_y, fs),
                  ArrowText, Black, n)
        text_pos_x ==
          IF collides THEN Shifted(last_x_position, fs) ELSE intended_x
        text_rect == TextRect(text_pos_x, text_pos_y, text_width, fs)
        drawn == ~is_infinite(text_rect) /\ ~is_empty(text_rect)
        label == Command("word", text_rect, b.word_text, b.text_color, n)
        cmds1 == IF collides THEN Append(st.page, arrow) ELSE st.page
        cmds2 == IF drawn THEN Append(cmds1, label) ELSE cmds1
        positions ==
          IF drawn
          THEN Store(st.current_x_position, text_pos_y,
                     Extent(text_pos_x, text_width))
          ELSE st.current_x_position
        entry ==
          [key |-> text_pos_y, drawn |-> drawn,
           before |-> st.current_x_position, after |-> positions]
    IN PassState(positions, b.text_color, b.word_text, TRUE, cmds2,
                 Append(st.log, entry), "loop")

\* add_text_differences(page, word_diffs) as a whole.
RECURSIVE RunPass(_, _, _, _, _)
RunPass(st, diffs, n, q, fs) ==
  IF st.status # "loop" \/ n > Len(diffs) THEN st
  ELSE RunPass(Iteration(st, diffs[n], n, q, fs), diffs, n + 1, q, fs)

add_text_differences(cmds, diffs, q, fs) ==
  RunPass(StartOfPass(cmds), diffs, 1, q, fs)

(* --------------------------- compare_pdfs ------------------------------ *)

VARIABLES
  old_len,             \* len(old_doc)
  new_len,             \* len(new_doc)
  page_num,            \* the page index the loop takes next
  compared,            \* per page taken: its index and what was found (history)
  output_doc,          \* the pages of output_doc, in order
  differences_found,
  result,              \* what compare_pdfs returned: "output_doc" or "None"
  doc_pc               \* "idle", "loop", "returned" or "UnboundLocalError"

docVars ==
  << old_len, new_len, page_num, compared, output_doc, differences_found,
     result, doc_pc >>

\* What overlay_differences returns: a combined image, or None.
Images == {"None", "image"}

\* What extract_and_compare_text returns for a page pair.
PageDiffLists == {<<>>} \cup { <<d>> : d \in WordDiffs }

\* Line 101: the number of page pairs taken.
MutNumPagesOld(olen, nlen) == olen

NumPages(olen, nlen) == IF olen < nlen THEN olen ELSE nlen

\* Line 114: whether the page pair differs.
MutPageDiffersBoth(combined_image, diffs) ==
  combined_image # "None" /\ diffs # <<>>

PageDiffers(combined_image, diffs) ==
  combined_image # "None" \/ diffs # <<>>

\* Line 124: output_doc.new_page puts the new page after the last one.
MutNewPageInFront(doc, p) == <<p>> \o doc

NewPage(doc, p) == Append(doc, p)

\* Lines 137-141: the value returned.
Returned(found) == IF found THEN "output_doc" ELSE "None"

DocState(doc, found, status) ==
  [output_doc |-> doc, differences_found |-> found, status |-> status]

\* Lines 102-135: the body of the loop for page n, given what the overlay
\* and the text comparison of that page pair came to.
ComparePage(st, combined_image, diffs, n, q, fs) ==
  IF ~PageDiffers(combined_image, diffs) THEN st
  ELSE
    LET pass == IF diffs # <<>>
                THEN add_text_differences(<<>>, diffs, q, fs)
                ELSE StartOfPass(<<>>)
        p == [src |-> n, image |-> combined_image, labels |-> pass.page]
    IN DocState(NewPage(st.output_doc, p), TRUE, pass.status)

\* compare_pdfs as a whole, over the page pairs it takes.
RECURSIVE RunPages(_, _, _, _, _)
RunPages(st, pairs, n, q, fs) ==
  IF st.status # "loop" \/ n > Len(pairs) THEN st
  ELSE RunPages(ComparePage(st, pairs[n].combined_image, pairs[n].word_diffs,
                            n - 1, q, fs),
                pairs, n + 1, q, fs)

compare_pdfs(pairs, q, fs) ==
  LET st == RunPages(DocState(<<>>, FALSE, "loop"), pairs, 1, q, fs)
  IN IF st.status = "loop"
     THEN [status |-> "returned", result |-> Returned(st.differences_found)]
     ELSE [status |-> st.status, result |-> "None"]

\* The loop takes the next page pair.
ComparePair(combined_image, diffs) ==
  /\ doc_pc = "loop"
  /\ page_num < NumPages(old_len, new_len)
  /\ LET st == ComparePage(DocState(output_doc, differences_found, "loop"),
                           combined_image, diffs, page_num, quality, font_size)
     IN /\ output_doc' = st.output_doc
        /\ differences_found' = st.differences_found
        /\ doc_pc' = st.status
  /\ compared' = Append(compared, [page_num |-> page_num,
                                   combined_image |-> combined_image,
                                   word_diffs |-> diffs])
  /\ page_num' = page_num + 1
  /\ UNCHANGED << old_len, new_len, result >>

\* The loop is over: lines 137-141.
ReturnFromCompare ==
  /\ doc_pc = "loop"
  /\ page_num >= NumPages(old_len, new_len)
  /\ result' = Returned(differences_found)
  /\ doc_pc' = "returned"
  /\ UNCHANGED << old_len, new_len, page_num, compared, output_doc,
                  differences_found >>

(* --------------------------- run_comparison ---------------------------- *)

VARIABLES
  old_dir,             \* the names in old_documents_dir
  new_dir,             \* the names in new_documents_dir
  old_files,           \* get_pdf_files(old_documents_dir), in listing order
  index,               \* how many elements of old_files the loop has taken
  invoked,             \* the files compare_pdfs was called for (history)
  printed,             \* the messages printed, in order
  output_dir,          \* the names saved in output_dir
  run_pc               \* "idle", "loop", "done" or the exception that ended it

runVars ==
  << old_dir, new_dir, old_files, index, invoked, printed, output_dir, run_pc >>

vars == << placeVars, docVars, runVars >>

\* The label pass is not running.
PassIdle ==
  /\ word_diffs = <<>>
  /\ current_x_position = EmptyPositions
  /\ text_color = Black
  /\ word_text = <<>>
  /\ assigned = FALSE
  /\ page = <<>>
  /\ log = <<>>
  /\ pc = "idle"

\* compare_pdfs is not running.
DocIdle ==
  /\ old_len = 0
  /\ new_len = 0
  /\ page_num = 0
  /\ compared = <<>>
  /\ output_doc = <<>>
  /\ differences_found = FALSE
  /\ result = "None"
  /\ doc_pc = "idle"

\* run_comparison is not running.
RunIdle ==
  /\ old_dir = {}
  /\ new_dir = {}
  /\ old_files = <<>>
  /\ index = 0
  /\ invoked = <<>>
  /\ printed = <<>>
  /\ output_dir = {}
  /\ run_pc = "idle"

\* __init__, lines 16-17.
InitSelf ==
  /\ quality \in Qualities
  /\ font_size = FONT_SIZE * quality

\* __init__ (lines 16-17), then the entry of add_text_differences (line 59).
InitPlace ==
  /\ InitSelf
  /\ word_diffs = <<>>
  /\ current_x_position = EmptyPositions
  /\ text_color = Black
  /\ word_text = <<>>
  /\ assigned = FALSE
  /\ page = <<>>
  /\ log = <<>>
  /\ pc = "loop"
  /\ DocIdle
  /\ RunIdle

Here ==
  PassState(current_x_position, text_color, word_text, assigned, page, log, pc)

\* The loop takes the next element of word_diffs.
ProcessDiff(d) ==
  /\ pc = "loop"
  /\ Len(word_diffs) < MaxDiffs
  /\ LET st == Iteration(Here, d, Len(word_diffs) + 1, quality, font_size)
     IN /\ current_x_position' = st.current_x_position
        /\ text_color' = st.text_color
        /\ word_text' = st.word_text
        /\ assigned' = st.assigned
        /\ page' = st.page
        /\ log' = st.log
        /\ pc' = st.status
  /\ word_diffs' = Append(word_diffs, d)
  /\ UNCHANGED << quality, font_size, docVars, runVars >>

\* word_diffs is exhausted: the function returns.
ReturnFromPass ==
  /\ pc = "loop"
  /\ pc' = "returned"
  /\ UNCHANGED << quality, font_size, word_diffs, current_x_position,
                  text_color, word_text, assigned, page, log, docVars, runVars >>

NextPlace ==
  \/ \E d \in WordDiffs : ProcessDiff(d)
  \/ ReturnFromPass

\* The label pass of one page.
Spec == InitPlace /\ [][NextPlace]_vars

\* __init__, then the entry of compare_pdfs (lines 95-99) on two documents.
InitDoc ==
  /\ InitSelf
  /\ PassIdle
  /\ old_len \in 0..MaxPages
  /\ new_len \in 0..MaxPages
  /\ page_num = 0
  /\ compared = <<>>
  /\ output_doc = <<>>
  /\ differences_found = FALSE
  /\ result = "None"
  /\ doc_pc = "loop"
  /\ RunIdle

NextDoc ==
  \/ \E combined_image \in Images, diffs \in PageDiffLists :
       /\ ComparePair(combined_image, diffs)
       /\ UNCHANGED << placeVars, runVars >>
  \/ ReturnFromCompare /\ UNCHANGED << placeVars, runVars >>

\* compare_pdfs on one pair of documents.
SpecDoc == InitDoc /\ [][NextDoc]_vars

\* The names a directory may hold: PDF files and one file that is no PDF.
FileNames ==
  [stem : 1..MaxFiles, ext : {".pdf"}] \cup {[stem |-> 0, ext |-> ".txt"]}

\* get_pdf_files, line 36: f.endswith('.pdf')
IsPdf(f) == f.ext = ".pdf"

\* os.listdir gives the names in an order of its own.
Listings(names) ==
  { l \in [1..Cardinality(names) -> names] :
      \A i, j \in DOMAIN l : i # j => l[i] # l[j] }

\* What the overlay and the text comparison come to for one page pair.
PagePairs == [combined_image : Images, word_diffs : PageDiffLists]

SamePage == [combined_image |-> "None", word_diffs |-> <<>>]

\* The page pairs of a document pair: none, one, or an unchanged page
\* followed by one.
DocPairs ==
  {<<>>} \cup { <<p>> : p \in PagePairs } \cup { <<SamePage, p>> : p \in PagePairs }

\* Line 159: os.path.exists(new_file_path); new_file_path carries the old
\* file's name.
Exists(dir, f) == f \in dir

\* Line 168: f"diff_{old_file}"
OutputName(f) == [prefix |-> "diff_", file |-> f]

\* Lines 156-175: the body of the loop for old_file, whose document pair
\* (when both files open) compares as pairs.
RunState(calls, msgs, saved, status) ==
  [invoked |-> calls, printed |-> msgs, output_dir |-> saved, status |-> status]

CompareFile(st, dir, old_file, pairs, q, fs) ==
  LET msgs1 == IF ~Exists(dir, old_file)
               THEN Append(st.printed, <<"New file not found", old_file>>)
               ELSE st.printed
      calls == Append(st.invoked, old_file)
  IN
  IF old_file \notin dir
  THEN \* pymupdf.open(new_file_path) raises: there is no such file
       RunState(calls, msgs1, st.output_dir, "FileNotFoundError")
  ELSE
    LET r == compare_pdfs(pairs, q, fs)
    IN IF r.status # "returned"
       THEN RunState(calls, msgs1, st.output_dir, r.status)
       ELSE IF r.result = "output_doc"
       THEN RunState(calls,
                     msgs1 \o << <<"Differences found", old_file>>,
                                 <<"Time taken", old_file>> >>,
                     st.output_dir \cup {OutputName(old_file)}, "loop")
       ELSE RunState(calls,
                     msgs1 \o << <<"No differences found", old_file>>,
                                 <<"Time taken", old_file>> >>,
                     st.output_dir, "loop")

\* The loop takes the next old file.
CompareNextFile(pairs) ==
  /\ run_pc = "loop"
  /\ index < Len(old_files)
  /\ LET st == CompareFile(RunState(invoked, printed, output_dir, "loop"),
                           new_dir, old_files[index + 1], pairs,
                           quality, font_size)
     IN /\ invoked' = st.invoked
        /\ printed' = st.printed
        /\ output_dir' = st.output_dir
        /\ run_pc' = st.status
  /\ index' = index + 1
  /\ UNCHANGED << old_dir, new_dir, old_files >>

\* The loop is over: lines 177-180.
FinishRun ==
  /\ run_pc = "loop"
  /\ index >= Len(old_files)
  /\ printed' = Append(printed, <<"Total time taken">>)
  /\ run_pc' = "done"
  /\ UNCHANGED << old_dir, new_dir, old_files, index, invoked, output_dir >>

\* __init__ (lines 16-21: the output folder is emptied), then lines 144-153.
InitRun ==
  /\ InitSelf
  /\ PassIdle
  /\ DocIdle
  /\ old_dir \in SUBSET FileNames
  /\ new_dir \in SUBSET FileNames
  /\ old_files \in Listings({ f \in old_dir : IsPdf(f) })
  /\ index = 0
  /\ invoked = <<>>
  /\ printed =
       (IF { f \in old_dir : IsPdf(f) } = {}
        THEN << <<"No PDF files found in the old documents directory">> >>
        ELSE <<>>)
       \o
       (IF { f \in new_dir : IsPdf(f) } = {}
        THEN << <<"No PDF files found in the new documents directory">> >>
        ELSE <<>>)
  /\ output_dir = {}
  /\ run_pc = "loop"

NextRun ==
  \/ \E pairs \in DocPairs :
       /\ CompareNextFile(pairs)
       /\ UNCHANGED << placeVars, docVars >>
  \/ FinishRun /\ UNCHANGED << placeVars, docVars >>

\* run_comparison on two directories.
SpecRun == InitRun /\ [][NextRun]_vars

(* ------------------------------ claims --------------------------------- *)

\* The line key of an insert_textbox call: its rectangle starts font_size
\* above the key.
KeyOf(c) == c.rect.y0 + FONT_SIZE * quality

SpaceWidth == get_text_length(<<" ">>, FONT_SIZE * quality)
ArrowWidth == get_text_length(<<" ", ">">>, FONT_SIZE * quality)

CommandsFor(n, kind) ==
  { i \in DOMAIN page : page[i].src = n /\ page[i].kind = kind }

MaxOf(S) == CHOOSE m \in S : \A x \in S : x <= m

\* Every word taken so far carries its marker.
AllMarked ==
  \A n \in DOMAIN word_diffs :
    startswith(word_diffs[n].word, Plus) \/ startswith(word_diffs[n].word, Minus)

\* C3: any two calls made for the same line key, word labels and arrows
\* alike, have horizontal extents that do not overlap (stated for word
\* lists in which every word carries its marker).
C3_NoOverlapOnLine ==
  AllMarked =>
    \A i, j \in DOMAIN page :
      (i < j /\ KeyOf(page[i]) = KeyOf(page[j])) =>
        \/ page[i].rect.x1 <= page[j].rect.x0
        \/ page[j].rect.x1 <= page[i].rect.x0

\* C4: a diff whose rectangle is degenerate leaves no call at all on the
\* page, neither label nor arrow, and leaves current_x_position as it was.
C4_DegenerateLeavesNothing ==
  \A n \in DOMAIN log :
    ~log[n].drawn =>
      /\ CommandsFor(n, "word") = {}
      /\ CommandsFor(n, "arrow") = {}
      /\ log[n].after = log[n].before

\* The text of a diff's own word, without its marker.
OwnText(d) ==
  IF startswith(d.word, Plus) \/ startswith(d.word, Minus)
  THEN DropMarker(d.word) ELSE d.word

\* C5: the label of an added diff is green, that of a removed diff red,
\* each carries its own diff's word, and every arrow is black, whatever
\* came earlier in the list.
C5_ColorByChangeType ==
  \A i \in DOMAIN page :
    LET c == page[i]
        d == word_diffs[c.src]
    IN /\ c.kind = "arrow" => c.color = Black
       /\ c.kind = "word" =>
            /\ d.change_type = "added" => c.color = Green
            /\ d.change_type = "removed" => c.color = Red
            /\ c.text = OwnText(d)

\* Whether the n-th diff, intended at (x, y), found the label before it on
\* its line reaching, with a space's margin, past x.
Hit(n) ==
  LET y == word_diffs[n].bbox[2] * quality
  IN /\ y \in DOMAIN log[n].before
     /\ log[n].before[y] + SpaceWidth > word_diffs[n].bbox[1] * quality

\* C6: an arrow is drawn for a diff exactly when its line key is already in
\* current_x_position and lastX + spaceWidth > x; the arrow then spans
\* [lastX, lastX + arrowWidth] and the label starts at
\* lastX + arrowWidth + spaceWidth; otherwise the label starts at x.
C6_ArrowIffCollision ==
  \A n \in DOMAIN log :
    LET x == word_diffs[n].bbox[1] * quality
        y == word_diffs[n].bbox[2] * quality
    IN /\ CommandsFor(n, "arrow") # {} <=> Hit(n)
       /\ Cardinality(CommandsFor(n, "arrow")) <= 1
       /\ \A i \in CommandsFor(n, "arrow") :
            /\ page[i].rect.x0 = log[n].before[y]
            /\ page[i].rect.x1 = log[n].before[y] + ArrowWidth
       /\ \A i \in CommandsFor(n, "word") :
            page[i].rect.x0 =
              IF Hit(n) THEN log[n].before[y] + ArrowWidth + SpaceWidth ELSE x

\* C6 witness: a first label stands where it was intended, and a later diff
\* on the same line was pushed behind an arrow.
C6_Witness ==
  \E n \in DOMAIN log :
    /\ n > 1
    /\ Hit(n)
    /\ CommandsFor(n, "word") # {}
    /\ CommandsFor(n, "arrow") # {}
    /\ CommandsFor(1, "word") # {}
    /\ CommandsFor(1, "arrow") = {}

\* C9 as stated: every label's top-left corner is (bx*q, by*q - fontSize*q)
\* (stated for word lists in which every word carries its marker).
C9_TopLeftScaled ==
  AllMarked =>
    \A i \in DOMAIN page :
      page[i].kind = "word" =>
        /\ page[i].rect.x0 = word_diffs[page[i].src].bbox[1] * quality
        /\ page[i].rect.y0 =
             word_diffs[page[i].src].bbox[2] * quality - FONT_SIZE * quality

\* C9, amended: every label's top is by*q - fontSize*q; its left is bx*q
\* when no arrow was drawn for its diff, and otherwise lies one arrow and
\* one space right of where the arrow starts.
C9_TopLeftScaledUnlessPushed ==
  \A i \in DOMAIN page :
    page[i].kind = "word" =>
      LET n == page[i].src
      IN /\ page[i].rect.y0 =
              word_diffs[n].bbox[2] * quality - FONT_SIZE * quality
         /\ CommandsFor(n, "arrow") = {} =>
              page[i].rect.x0 = word_diffs[n].bbox[1] * quality
         /\ \A a \in CommandsFor(n, "arrow") :
              page[i].rect.x0 = page[a].rect.x0 + ArrowWidth + SpaceWidth

\* C9 witness: at a zoom other than 1, one label at its scaled position and
\* one pushed behind an arrow.
C9_Witness ==
  /\ quality > 1
  /\ \E i, j \in DOMAIN page :
       /\ page[i].kind = "word" /\ CommandsFor(page[i].src, "arrow") = {}
       /\ word_diffs[page[i].src].bbox[1] > 0
       /\ page[j].kind = "word" /\ CommandsFor(page[j].src, "arrow") # {}

\* The labels drawn on line key k by the first n diffs.
LabelsOn(k, n) ==
  { i \in DOMAIN page :
      page[i].kind = "word" /\ page[i].src <= n /\ KeyOf(page[i]) = k }

\* C10: current_x_position starts empty; after every diff it holds, for
\* exactly the line keys that carry a label, the rightmost extent of the
\* labels on that key; no key is lost and no value decreases.
C10_RightmostExtent ==
  /\ current_x_position =
       IF log = <<>> THEN EmptyPositions ELSE log[Len(log)].after
  /\ \A n \in DOMAIN log :
       LET e == log[n]
       IN /\ e.before = IF n = 1 THEN EmptyPositions ELSE log[n - 1].after
          /\ \A k \in DOMAIN e.before :
               k \in DOMAIN e.after /\ e.after[k] >= e.before[k]
          /\ DOMAIN e.after =
               { KeyOf(page[i]) : i \in { j \in DOMAIN page :
                   page[j].kind = "word" /\ page[j].src <= n } }
          /\ \A k \in DOMAIN e.after :
               e.after[k] = MaxOf({ page[i].rect.x1 : i \in LabelsOn(k, n) })

\* C10 witness: two line keys are held, and a diff intended left of the
\* label already on its line was drawn.
C10_Witness ==
  /\ Cardinality(DOMAIN current_x_position) = 2
  /\ \E n \in DOMAIN log :
       LET y == word_diffs[n].bbox[2] * quality
       IN /\ log[n].drawn
          /\ y \in DOMAIN log[n].before
          /\ word_diffs[n].bbox[1] * quality < log[n].before[y]
          /\ log[n].after[y] > log[n].before[y]

\* Whether the page pair logged at position i of compared differed.
Differed(i) ==
  compared[i].combined_image # "None" \/ compared[i].word_diffs # <<>>

\* C1: compare_pdfs returns the output document exactly when some compared
\* page pair had an overlay or a word diff, and None when none had.
C1_DocumentIffDifference ==
  doc_pc = "returned" =>
    (result = "output_doc" <=> \E i \in DOMAIN compared : Differed(i))

\* C1 witness: a document comes back although one page pair had neither
\* overlay nor word diffs and the other had word diffs only.
C1_Witness ==
  /\ doc_pc = "returned"
  /\ result = "output_doc"
  /\ \E i, j \in DOMAIN compared :
       /\ ~Differed(i)
       /\ compared[j].combined_image = "None"
       /\ compared[j].word_diffs # <<>>

\* C7: the page pairs compared are those of indices 0 .. min - 1, all of
\* them once the function returns, and no output page comes from an index
\* at or beyond min.
C7_ComparesMinPages ==
  LET m == IF old_len <= new_len THEN old_len ELSE new_len
  IN /\ Len(compared) <= m
     /\ \A i \in DOMAIN compared : compared[i].page_num = i - 1
     /\ doc_pc = "returned" => Len(compared) = m
     /\ \A i \in DOMAIN output_doc : output_doc[i].src < m

\* C7 witness: the old document is longer than the new one, and the
\* function returned having compared the new one's pages.
C7_Witness ==
  /\ doc_pc = "returned"
  /\ old_len > new_len
  /\ new_len > 0
  /\ Len(compared) = new_len

\* C8: the output document holds one page for each compared index that
\* differed and none for any other, in increasing order of index.
C8_OnePagePerDifference ==
  /\ \A i, j \in DOMAIN output_doc :
       i < j => output_doc[i].src < output_doc[j].src
  /\ { output_doc[i].src : i \in DOMAIN output_doc } =
       { compared[i].page_num : i \in { j \in DOMAIN compared : Differed(j) } }

\* C8 witness: two page pairs were compared, both differed, and the output
\* document holds their two pages.
C8_Witness ==
  /\ doc_pc = "returned"
  /\ Len(compared) = 2
  /\ Len(output_doc) = 2

\* C2: an old file without a new file of its name is reported and skipped
\* (compare_pdfs is not called for it), and the run goes on to handle every
\* other old file.
C2_MissingIsSkipped ==
  /\ \A i \in 1..index :
       old_files[i] \notin new_dir =>
         \E j \in DOMAIN printed :
           printed[j] = <<"New file not found", old_files[i]>>
  /\ \A i \in DOMAIN invoked : invoked[i] \in new_dir
  /\ run_pc \notin {"loop", "UnboundLocalError"} =>
       \A i \in DOMAIN old_files :
         old_files[i] \in new_dir =>
           \E j \in DOMAIN invoked : invoked[j] = old_files[i]

====
